---- MODULE Spec2Model ----
(***************************************************************************)
(* Model of app.py: the JSON store (load_data / save_data), the task and   *)
(* habit registries that read-modify-write it, and the metrics functions   *)
(* (percent, get_week_dates, weekly_completion_for_habit, current_streak). *)
(*                                                                         *)
(* Python values are tagged records [t, v]: t is the Python type and v the *)
(* text of the value as a sequence of one-character strings.  JSON values  *)
(* are tagged records [j, v].  A date is its proleptic Gregorian ordinal   *)
(* (date.toordinal()), so that weekday() and timedelta arithmetic are      *)
(* integer arithmetic.                                                     *)
(***************************************************************************)
EXTENDS Integers, Sequences, FiniteSets, TLC

VARIABLES file, nextId, supplied, pc, snap, req, metric

vars == <<file, nextId, supplied, pc, snap, req, metric>>

(***************************************************************************)
(* Bounds of the model.                                                    *)
(***************************************************************************)
\* number of uuid4() values drawn in one behaviour, and the largest number of
\* records (tasks and habits together) the file holds
MaxIds == 2
\* number of calendar days the metric inputs range over
NumMetricDays == 10
\* largest part and whole handed to percent
MaxPart == 30
MaxWhole == 50

(***************************************************************************)
(* Python values.                                                          *)
(***************************************************************************)
PyStr(s) == [t |-> "str", v |-> s]
PyNone == [t |-> "NoneType", v |-> <<>>]
PyBool(b) == [t |-> "bool", v |-> IF b THEN <<"T">> ELSE <<"F">>]

\* str.strip(): drop leading and trailing whitespace
RECURSIVE LStrip(_)
LStrip(s) == IF s # <<>> /\ Head(s) = " " THEN LStrip(Tail(s)) ELSE s

RECURSIVE RStrip(_)
RStrip(s) ==
    IF s # <<>> /\ s[Len(s)] = " " THEN RStrip(SubSeq(s, 1, Len(s) - 1)) ELSE s

Strip(s) == RStrip(LStrip(s))

Digit(n) == <<"0", "1", "2", "3", "4", "5", "6", "7", "8", "9">>[n + 1]

\* date.isoformat(): "YYYY-MM-DD", for the dates of January and February 2024
\* (2024-01-01 is ordinal 738886)
IsoFormat(d) ==
    LET n == d - 738886
        month == IF n < 31 THEN 1 ELSE 2
        day == IF n < 31 THEN n + 1 ELSE n - 30
    IN  <<"2", "0", "2", "4", "-", "0", Digit(month), "-",
          Digit(day \div 10), Digit(day % 10)>>

\* date.weekday(): Monday is 0 (ordinal 1, 0001-01-01, is a Monday)
Weekday(d) == (d + 6) % 7

\* a datetime.date object; v is its str(), which is its isoformat()
PyDate(d) == [t |-> "date", v |-> IsoFormat(d)]

\* str(uuid4()): the n-th value drawn
Uuid(n) == <<"u", Digit(n)>>

\* datetime.now().isoformat() on day d
NowIso(d) == IsoFormat(d) \o <<"T", "0", "9">>

(***************************************************************************)
(* The JSON file.                                                          *)
(***************************************************************************)
\* json.dump of one value, with default=str for what JSON cannot encode
JsonDumpValue(p) ==
    CASE p.t = "str" -> [j |-> "string", v |-> p.v]
      [] p.t = "NoneType" -> [j |-> "null", v |-> <<>>]
      [] p.t = "bool" -> [j |-> IF p.v = <<"T">> THEN "true" ELSE "false", v |-> <<>>]
      [] OTHER -> [j |-> "string", v |-> p.v]

\* json.load of one value
JsonLoadValue(x) ==
    CASE x.j = "string" -> PyStr(x.v)
      [] x.j = "null" -> PyNone
      [] x.j = "true" -> PyBool(TRUE)
      [] OTHER -> PyBool(FALSE)

JsonDumpTask(t) == [k \in DOMAIN t |-> JsonDumpValue(t[k])]
JsonLoadTask(x) == [k \in DOMAIN x |-> JsonLoadValue(x[k])]

JsonDumpList(l) == [i \in 1..Len(l) |-> JsonDumpValue(l[i])]
JsonLoadList(a) == [i \in 1..Len(a) |-> JsonLoadValue(a[i])]

JsonDumpHabit(h) ==
    [k \in DOMAIN h |-> IF k = "log" THEN JsonDumpList(h[k]) ELSE JsonDumpValue(h[k])]
JsonLoadHabit(x) ==
    [k \in DOMAIN x |-> IF k = "log" THEN JsonLoadList(x[k]) ELSE JsonLoadValue(x[k])]

\* the data dictionary {"tasks": [], "habits": []}
InitialData == [tasks |-> <<>>, habits |-> <<>>]

\* save_data: open(DATA_FILE, "w") truncates, json.dump writes the whole document
save_data(data) ==
    [st |-> "json",
     tasks |-> [i \in 1..Len(data.tasks) |-> JsonDumpTask(data.tasks[i])],
     habits |-> [i \in 1..Len(data.habits) |-> JsonDumpHabit(data.habits[i])]]

\* the file after open(DATA_FILE, "w") and before json.dump has written
TruncatedFile == [st |-> "empty", tasks |-> <<>>, habits |-> <<>>]

\* the file after two writers that both had it open wrote over each other
GarbledFile == [st |-> "garbled", tasks |-> <<>>, habits |-> <<>>]

\* no file on disk
NoFile == [st |-> "absent", tasks |-> <<>>, habits |-> <<>>]

\* init_data_file: create the initial document if the file does not exist
init_data_file(f) == IF f.st = "absent" THEN save_data(InitialData) ELSE f

\* load_data: the file after init_data_file, the dictionary read, and whether
\* json.load raised (an empty or garbled file is not a JSON document)
load_data(f) ==
    LET g == init_data_file(f)
    IN  IF g.st # "json"
        THEN [file |-> g, raised |-> TRUE, data |-> InitialData]
        ELSE [file |-> g, raised |-> FALSE,
              data |-> [tasks |-> [i \in 1..Len(g.tasks) |-> JsonLoadTask(g.tasks[i])],
                        habits |-> [i \in 1..Len(g.habits) |-> JsonLoadHabit(g.habits[i])]]]

\* one operation: load_data, the change made in memory, save_data.  body is
\* [data, raised]; an exception leaves the file as load_data left it.
Stored(loaded, body) ==
    IF loaded.raised \/ body.raised
    THEN [file |-> loaded.file, raised |-> TRUE]
    ELSE [file |-> save_data(body.data), raised |-> FALSE]

Ok(data) == [data |-> data, raised |-> FALSE]

(***************************************************************************)
(* Task registry.                                                          *)
(***************************************************************************)
\* create_task drawing the same id every time
CreateTaskFixedId(title, description, deadline, n, now) ==
    [id |-> PyStr(Uuid(1)),
     title |-> PyStr(Strip(title)),
     description |-> PyStr(Strip(description)),
     deadline |-> IF deadline.t = "date" THEN PyStr(deadline.v) ELSE PyNone,
     created_at |-> PyStr(NowIso(now)),
     completed |-> PyBool(FALSE)]

\* create_task keeping the date object instead of its isoformat()
CreateTaskRawDeadline(title, description, deadline, n, now) ==
    [id |-> PyStr(Uuid(n)),
     title |-> PyStr(Strip(title)),
     description |-> PyStr(Strip(description)),
     deadline |-> deadline,
     created_at |-> PyStr(NowIso(now)),
     completed |-> PyBool(FALSE)]

\* create_task; deadline is a date object or None, n numbers the uuid4() drawn,
\* now is the day of datetime.now()
create_task(title, description, deadline, n, now) ==
    [id |-> PyStr(Uuid(n)),
     title |-> PyStr(Strip(title)),
     description |-> PyStr(Strip(description)),
     deadline |-> IF deadline.t = "date" THEN PyStr(deadline.v) ELSE PyNone,
     created_at |-> PyStr(NowIso(now)),
     completed |-> PyBool(FALSE)]

\* dict.update(changes)
DictUpdate(d, changes) ==
    [k \in DOMAIN d \cup DOMAIN changes |->
        IF k \in DOMAIN changes THEN changes[k] ELSE d[k]]

\* index of the first record of the list whose "id" equals id, 0 if none: the
\* record the for loop reaches before its break
FirstMatch(list, id) ==
    IF \E i \in 1..Len(list) : list[i].id = id
    THEN CHOOSE i \in 1..Len(list) :
            /\ list[i].id = id
            /\ \A k \in 1..(i - 1) : list[k].id # id
    ELSE 0

add_task_body(data, task) ==
    Ok([tasks |-> Append(data.tasks, task), habits |-> data.habits])

add_task(f, task) ==
    LET r == load_data(f) IN Stored(r, add_task_body(r.data, task))

update_task_body(data, task_id, changes) ==
    LET i == FirstMatch(data.tasks, task_id)
    IN  Ok([tasks |-> [k \in 1..Len(data.tasks) |->
                         IF k = i THEN DictUpdate(data.tasks[k], changes)
                                  ELSE data.tasks[k]],
            habits |-> data.habits])

update_task(f, task_id, changes) ==
    LET r == load_data(f) IN Stored(r, update_task_body(r.data, task_id, changes))

\* delete_task keeping the records it should drop
DeleteTaskBodyInverted(data, task_id) ==
    Ok([tasks |-> SelectSeq(data.tasks, LAMBDA t : t.id = task_id),
        habits |-> data.habits])

delete_task_body(data, task_id) ==
    Ok([tasks |-> SelectSeq(data.tasks, LAMBDA t : t.id # task_id),
        habits |-> data.habits])

delete_task(f, task_id) ==
    LET r == load_data(f) IN Stored(r, delete_task_body(r.data, task_id))

(***************************************************************************)
(* Habit registry.                                                         *)
(***************************************************************************)
create_habit(name, desc, n, now) ==
    [id |-> PyStr(Uuid(n)),
     name |-> PyStr(Strip(name)),
     description |-> PyStr(Strip(desc)),
     created_at |-> PyStr(NowIso(now)),
     log |-> <<>>]

add_habit_body(data, habit) ==
    Ok([tasks |-> data.tasks, habits |-> Append(data.habits, habit)])

add_habit(f, habit) ==
    LET r == load_data(f) IN Stored(r, add_habit_body(r.data, habit))

update_habit_body(data, habit_id, changes) ==
    LET i == FirstMatch(data.habits, habit_id)
    IN  Ok([tasks |-> data.tasks,
            habits |-> [k \in 1..Len(data.habits) |->
                          IF k = i THEN DictUpdate(data.habits[k], changes)
                                   ELSE data.habits[k]]])

update_habit(f, habit_id, changes) ==
    LET r == load_data(f) IN Stored(r, update_habit_body(r.data, habit_id, changes))

delete_habit_body(data, habit_id) ==
    Ok([tasks |-> data.tasks,
        habits |-> SelectSeq(data.habits, LAMBDA h : h.id # habit_id)])

delete_habit(f, habit_id) ==
    LET r == load_data(f) IN Stored(r, delete_habit_body(r.data, habit_id))

\* x in list
In(x, list) == \E i \in 1..Len(list) : list[i] = x

\* list.remove(x): drops the first occurrence, raises ValueError if there is none
ListRemove(list, x) ==
    IF In(x, list)
    THEN LET i == CHOOSE i \in 1..Len(list) :
                     list[i] = x /\ \A k \in 1..(i - 1) : list[k] # x
         IN  [list |-> SubSeq(list, 1, i - 1) \o SubSeq(list, i + 1, Len(list)),
              raised |-> FALSE]
    ELSE [list |-> list, raised |-> TRUE]

\* toggle_habit_for_date appending without the "not in" test
ToggleLogAppendAlways(log, day_iso, is_done) ==
    LET log1 == IF is_done THEN Append(log, day_iso) ELSE log
    IN  IF ~is_done /\ In(day_iso, log1)
        THEN ListRemove(log1, day_iso)
        ELSE [list |-> log1, raised |-> FALSE]

\* toggle_habit_for_date flipping the day when is_done is true
ToggleLogFlip(log, day_iso, is_done) ==
    IF is_done
    THEN IF In(day_iso, log) THEN ListRemove(log, day_iso)
         ELSE [list |-> Append(log, day_iso), raised |-> FALSE]
    ELSE IF In(day_iso, log) THEN ListRemove(log, day_iso)
         ELSE [list |-> log, raised |-> FALSE]

\* toggle_habit_for_date removing without the "in" test
ToggleLogRemoveUnguarded(log, day_iso, is_done) ==
    LET log1 == IF is_done /\ ~In(day_iso, log) THEN Append(log, day_iso) ELSE log
    IN  IF ~is_done
        THEN ListRemove(log1, day_iso)
        ELSE [list |-> log1, raised |-> FALSE]

\* the two if statements of toggle_habit_for_date on the log of the habit found
ToggleLog(log, day_iso, is_done) ==
    LET log1 == IF is_done /\ ~In(day_iso, log) THEN Append(log, day_iso) ELSE log
    IN  IF ~is_done /\ In(day_iso, log1)
        THEN ListRemove(log1, day_iso)
        ELSE [list |-> log1, raised |-> FALSE]

\* toggle_habit_for_date without the id test: every habit's log is toggled
ToggleBodyEveryHabit(data, habit_id, day_iso, is_done) ==
    [data |-> [tasks |-> data.tasks,
               habits |-> [k \in 1..Len(data.habits) |->
                             [data.habits[k] EXCEPT
                                !.log = ToggleLog(data.habits[k].log, day_iso, is_done).list]]],
     raised |-> FALSE]

toggle_habit_for_date_body(data, habit_id, day_iso, is_done) ==
    LET i == FirstMatch(data.habits, habit_id)
        r == IF i = 0 THEN [list |-> <<>>, raised |-> FALSE]
                      ELSE ToggleLog(data.habits[i].log, day_iso, is_done)
    IN  [data |-> [tasks |-> data.tasks,
                   habits |-> [k \in 1..Len(data.habits) |->
                                 IF k = i THEN [data.habits[k] EXCEPT !.log = r.list]
                                          ELSE data.habits[k]]],
         raised |-> r.raised]

toggle_habit_for_date(f, habit_id, day_iso, is_done) ==
    LET r == load_data(f)
    IN  Stored(r, toggle_habit_for_date_body(r.data, habit_id, day_iso, is_done))

(***************************************************************************)
(* Inputs of the operations.                                               *)
(***************************************************************************)
\* text typed into the title / name and description fields
TitleInputs == {<<" ", "a">>}
DescInputs == {<<"d", " ">>}

\* the days the habit checkboxes range over: 2024-01-31 and 2024-02-01
Days == {738916, 738917}

\* what the deadline date_input hands to create_task
DeadlineInputs == {PyNone} \cup {PyDate(d) : d \in {738916}}

\* the day of datetime.now()
Nows == {738916}

\* the ids a caller may name: those uuid4() can draw in one behaviour
Ids == {PyStr(Uuid(n)) : n \in 0..MaxIds}

\* task records a caller may hand to add_task without create_task
SuppliedTasks ==
    {[id |-> i, title |-> PyStr(<<"s">>), description |-> PyStr(<<>>),
      deadline |-> PyNone, created_at |-> PyStr(NowIso(738916)),
      completed |-> PyBool(FALSE)] : i \in {PyStr(Uuid(1))}}

\* keyword arguments of the update_task calls
TaskChanges ==
    {[completed |-> PyBool(c)] : c \in BOOLEAN}
    \cup {[title |-> PyStr(t), description |-> PyStr(d),
           deadline |-> PyStr(IsoFormat(738917)), completed |-> PyBool(c)] :
            t \in TitleInputs, d \in DescInputs, c \in {TRUE}}

\* keyword arguments of the update_habit call
HabitChanges ==
    {[name |-> PyStr(n), description |-> PyStr(d)] : n \in TitleInputs, d \in DescInputs}

(***************************************************************************)
(* State.                                                                  *)
(*   file      the JSON file DATA_FILE                                     *)
(*   nextId    how many uuid4() values have been drawn                     *)
(*   supplied  whether add_task was handed a record not built by           *)
(*             create_task                                                 *)
(*   pc, snap, req   two processes, each running one operation: position,  *)
(*             the dictionary load_data returned, the operation            *)
(*   metric    the last metric computed: its name, inputs and result       *)
(***************************************************************************)
Procs == {1, 2}

NoReq ==
    [op |-> "none", id |-> PyNone, day |-> PyNone, done |-> FALSE,
     changes |-> [completed |-> PyBool(FALSE)]]

NoMetric == [fn |-> "none", a |-> 0, b |-> 0, log |-> <<>>, out |-> 0]

\* the dictionary a load_data call returns now
Data == load_data(file).data

\* room for one more record
Room == Len(Data.tasks) + Len(Data.habits) < MaxIds

HasId(list, id) == \E i \in 1..Len(list) : list[i].id = id

SeqIdle ==
    /\ pc = [p \in Procs |-> "idle"]
    /\ metric = NoMetric
    /\ UNCHANGED <<pc, snap, req, metric>>

Init ==
    /\ file = NoFile
    /\ nextId = 0
    /\ supplied = FALSE
    /\ pc = [p \in Procs |-> "idle"]
    /\ snap = [p \in Procs |-> InitialData]
    /\ req = [p \in Procs |-> NoReq]
    /\ metric = NoMetric

\* load_data() on its own (the page reloads the data on every run)
LoadData ==
    /\ SeqIdle
    /\ file' = load_data(file).file
    /\ UNCHANGED <<nextId, supplied>>

\* add_task(create_task(title, description, deadline))
AddTask ==
    /\ SeqIdle
    /\ nextId < MaxIds
    /\ Room
    /\ \E title \in TitleInputs, description \in DescInputs,
          deadline \in DeadlineInputs, now \in Nows :
          LET r == add_task(file, create_task(title, description, deadline,
                                              nextId + 1, now))
          IN  file' = r.file
    /\ nextId' = nextId + 1
    /\ UNCHANGED supplied

\* add_task(task) with a record the caller built
AddTaskSupplied ==
    /\ SeqIdle
    /\ Room
    /\ \E task \in SuppliedTasks :
          LET r == add_task(file, task)
          IN  file' = r.file
    /\ supplied' = TRUE
    /\ UNCHANGED nextId

UpdateTask ==
    /\ SeqIdle
    /\ \E id \in Ids, changes \in TaskChanges :
          LET r == update_task(file, id, changes)
          IN  file' = r.file
    /\ UNCHANGED <<nextId, supplied>>

DeleteTask ==
    /\ SeqIdle
    /\ \E id \in Ids :
          LET r == delete_task(file, id)
          IN  file' = r.file
    /\ UNCHANGED <<nextId, supplied>>

\* add_habit(create_habit(name, desc))
AddHabit ==
    /\ SeqIdle
    /\ nextId < MaxIds
    /\ Room
    /\ \E name \in TitleInputs, desc \in DescInputs, now \in Nows :
          LET r == add_habit(file, create_habit(name, desc, nextId + 1, now))
          IN  file' = r.file
    /\ nextId' = nextId + 1
    /\ UNCHANGED supplied

UpdateHabit ==
    /\ SeqIdle
    /\ \E id \in Ids, changes \in HabitChanges :
          LET r == update_habit(file, id, changes)
          IN  file' = r.file
    /\ UNCHANGED <<nextId, supplied>>

DeleteHabit ==
    /\ SeqIdle
    /\ \E id \in Ids :
          LET r == delete_habit(file, id)
          IN  file' = r.file
    /\ UNCHANGED <<nextId, supplied>>

\* whether the day is in the log of the habit the id names
DayLogged(data, id, day_iso) ==
    /\ HasId(data.habits, id)
    /\ In(day_iso, data.habits[FirstMatch(data.habits, id)].log)

ToggleHabit ==
    /\ SeqIdle
    /\ \E id \in Ids, d \in Days, is_done \in BOOLEAN :
          LET day_iso == PyStr(IsoFormat(d))
              r == toggle_habit_for_date(file, id, day_iso, is_done)
          IN  file' = r.file
    /\ UNCHANGED <<nextId, supplied>>

Next ==
    \/ LoadData
    \/ AddTask
    \/ AddTaskSupplied
    \/ UpdateTask
    \/ DeleteTask
    \/ AddHabit
    \/ UpdateHabit
    \/ DeleteHabit
    \/ ToggleHabit

Spec == Init /\ [][Next]_vars

(***************************************************************************)
(* Metrics.  percent computes in binary64 floating point: part / whole is  *)
(* the correctly rounded quotient, * 100 the correctly rounded product,    *)
(* int() truncates.  A positive float is [a, b, c, k]: its 53-bit          *)
(* significand is a * 2^36 + b * 2^18 + c (limbs of 18 bits, the first bit *)
(* of a set) and its value is significand * 2^(k - 52).                    *)
(***************************************************************************)
RECURSIVE Pow2(_)
Pow2(n) == IF n = 0 THEN 1 ELSE 2 * Pow2(n - 1)

Limb == 262144

\* the k with den * 2^k <= num < den * 2^(k+1), for num >= den
RECURSIVE ShiftDown(_, _)
ShiftDown(num, den) == IF 2 * den <= num THEN 1 + ShiftDown(num, 2 * den) ELSE 0

\* the j with den <= num * 2^j < 2 * den, for num <= den
RECURSIVE ShiftUp(_, _)
ShiftUp(num, den) == IF num < den THEN 1 + ShiftUp(2 * num, den) ELSE 0

\* the significand plus one
FloatNextUp(x) ==
    IF x.c + 1 < Limb THEN [x EXCEPT !.c = x.c + 1]
    ELSE IF x.b + 1 < Limb THEN [x EXCEPT !.c = 0, !.b = x.b + 1]
    ELSE IF x.a + 1 < Limb \div 2 THEN [x EXCEPT !.c = 0, !.b = 0, !.a = x.a + 1]
    ELSE [a |-> Limb \div 4, b |-> 0, c |-> 0, k |-> x.k + 1]

\* part / whole for positive ints below 2^20: the correctly rounded quotient.
\* Long division in six digits of 9 bits gives the quotient to 55 bits, of
\* which 53 are kept; the next is the guard bit and the rest is sticky.
FloatDiv(part, whole) ==
    LET k == IF part >= whole THEN ShiftDown(part, whole) ELSE 0 - ShiftUp(part, whole)
        num == IF k < 0 THEN part * Pow2(0 - k) ELSE part
        den == IF k > 0 THEN whole * Pow2(k) ELSE whole
        r0 == num - den
        d1 == (r0 * 512) \div den
        r1 == (r0 * 512) % den
        d2 == (r1 * 512) \div den
        r2 == (r1 * 512) % den
        d3 == (r2 * 512) \div den
        r3 == (r2 * 512) % den
        d4 == (r3 * 512) \div den
        r4 == (r3 * 512) % den
        d5 == (r4 * 512) \div den
        r5 == (r4 * 512) % den
        d6 == (r5 * 512) \div den
        r6 == (r5 * 512) % den
        kept == [a |-> 65536 + d1 * 128 + d2 \div 4,
                 b |-> (d2 % 4) * 65536 + d3 * 128 + d4 \div 4,
                 c |-> (d4 % 4) * 65536 + d5 * 128 + d6 \div 4,
                 k |-> k]
        guard == (d6 \div 2) % 2 = 1
        sticky == d6 % 2 = 1 \/ r6 # 0
        odd == kept.c % 2 = 1
    IN  IF guard /\ (sticky \/ odd) THEN FloatNextUp(kept) ELSE kept

\* int(x * 100) for a positive float x: the exact product of the significand
\* and 100 has 59 or 60 bits and is rounded to 53 (nearest, ties to even);
\* then the bits below the binary point are dropped
FloatMul100ToInt(x) ==
    LET t0 == x.c * 100
        p0 == t0 % Limb
        t1 == x.b * 100 + t0 \div Limb
        p1 == t1 % Limb
        p2 == x.a * 100 + t1 \div Limb
        s == IF p2 >= 8388608 THEN 7 ELSE 6
        unit == Pow2(s)
        dropped == p0 % unit
        odd == (p0 \div unit) % 2 = 1
        up == 2 * dropped > unit \/ (2 * dropped = unit /\ odd)
        u0 == p0 - dropped + (IF up THEN unit ELSE 0)
        q0 == u0 % Limb
        u1 == p1 + u0 \div Limb
        q1 == u1 % Limb
        q2 == p2 + u1 \div Limb
        shift == 52 - x.k
    IN  IF shift >= 61 THEN 0
        ELSE IF shift >= 36 THEN q2 \div Pow2(shift - 36)
        ELSE q2 * Pow2(36 - shift) + q1 \div Pow2(shift - 18)

\* percent(part, whole); int(0.0 * 100) is 0
percent(part, whole) ==
    IF whole # 0
    THEN IF part = 0 THEN 0 ELSE FloatMul100ToInt(FloatDiv(part, whole))
    ELSE 0

\* get_week_dates starting the week at the reference date
GetWeekDatesFromRef(ref_date) == [i \in 1..7 |-> ref_date + (i - 1)]

\* get_week_dates(ref_date): the seven dates from the Monday on or before it
get_week_dates(ref_date) ==
    LET start == ref_date - Weekday(ref_date)
    IN  [i \in 1..7 |-> start + (i - 1)]

\* weekly_completion_for_habit(habit, ref_date)
weekly_completion_for_habit(habit, ref_date) ==
    LET week == get_week_dates(ref_date)
        week_iso == {PyStr(IsoFormat(week[i])) : i \in 1..7}
        done == Cardinality({i \in 1..Len(habit.log) : habit.log[i] \in week_iso})
    IN  percent(done, 7)

\* the while loop of current_streak
RECURSIVE StreakLoop(_, _, _)
StreakLoop(log, day, streak) ==
    IF PyStr(IsoFormat(day)) \in log
    THEN StreakLoop(log, day - 1, streak + 1)
    ELSE streak

\* current_streak starting the walk at yesterday
CurrentStreakFromYesterday(habit, today) ==
    LET log == {habit.log[i] : i \in 1..Len(habit.log)}
    IN  StreakLoop(log, today - 1, 0)

\* current_streak(habit), with date.today() as a parameter
current_streak(habit, today) ==
    LET log == {habit.log[i] : i \in 1..Len(habit.log)}
    IN  StreakLoop(log, today, 0)

(***************************************************************************)
(* The metrics on their own: one call on inputs drawn from bounded sets.   *)
(***************************************************************************)
\* the days of the logs and reference dates: 2024-01-27 (a Saturday) onwards,
\* which holds the whole week of Monday 2024-01-29
MetricDays == 738912 .. (738912 + NumMetricDays - 1)

\* a log holding the days of S, oldest first
RECURSIVE LogOf(_)
LogOf(S) ==
    IF S = {} THEN <<>>
    ELSE LET m == CHOOSE d \in S : \A x \in S : d <= x
         IN  <<PyStr(IsoFormat(m))>> \o LogOf(S \ {m})

\* a habit record with the given log
HabitWithLog(log) == [create_habit(<<"h">>, <<>>, 1, 738912) EXCEPT !.log = log]

MetricIdle ==
    /\ metric = NoMetric
    /\ UNCHANGED <<file, nextId, supplied, pc, snap, req>>

ComputePercent ==
    /\ MetricIdle
    /\ \E part \in 0..MaxPart, whole \in 0..MaxWhole :
          metric' = [fn |-> "percent", a |-> part, b |-> whole, log |-> <<>>,
                     out |-> percent(part, whole)]

ComputeWeekly ==
    /\ MetricIdle
    /\ \E S \in SUBSET MetricDays, ref_date \in MetricDays :
          metric' = [fn |-> "weekly", a |-> ref_date, b |-> 0, log |-> LogOf(S),
                     out |-> weekly_completion_for_habit(HabitWithLog(LogOf(S)), ref_date)]

ComputeStreak ==
    /\ MetricIdle
    /\ \E S \in SUBSET MetricDays, today \in MetricDays :
          metric' = [fn |-> "streak", a |-> today, b |-> 0, log |-> LogOf(S),
                     out |-> current_streak(HabitWithLog(LogOf(S)), today)]

NextMetrics ==
    \/ ComputePercent
    \/ ComputeWeekly
    \/ ComputeStreak

SpecMetrics == Init /\ [][NextMetrics]_vars

(***************************************************************************)
(* Two processes on the same file.  Each runs one operation: load_data,    *)
(* the change in memory, then save_data, which first truncates the file    *)
(* (open "w") and then writes the document.  Nothing orders the steps of   *)
(* one process against those of the other.                                 *)
(***************************************************************************)
\* the file the processes start from: one task (id u1) and one habit (id u2)
SharedData ==
    [tasks |-> <<create_task(<<"a">>, <<"d">>, PyNone, 1, 738916)>>,
     habits |-> <<create_habit(<<"a">>, <<"d">>, 2, 738916)>>]

\* the calls a process may make
Requests ==
    {[op |-> "toggle_habit_for_date", id |-> i, day |-> PyStr(IsoFormat(d)),
      done |-> b, changes |-> NoReq.changes] :
        i \in {PyStr(Uuid(2)), PyStr(Uuid(0))}, d \in Days, b \in BOOLEAN}
    \cup {[op |-> "update_task", id |-> i, day |-> PyNone, done |-> FALSE,
           changes |-> c] :
            i \in {PyStr(Uuid(1)), PyStr(Uuid(0))}, c \in TaskChanges}

\* what the operation does to the dictionary it loaded
ReqBody(r, data) ==
    CASE r.op = "toggle_habit_for_date" ->
            toggle_habit_for_date_body(data, r.id, r.day, r.done)
      [] r.op = "update_task" -> update_task_body(data, r.id, r.changes)
      [] OTHER -> Ok(data)

\* a save that folds in what the other process has saved meanwhile
WrittenDataMerged(p) ==
    LET o == CHOOSE q \in Procs : q # p
        mine == ReqBody(req[p], snap[p]).data
    IN  IF pc[o] = "done" THEN ReqBody(req[o], mine).data ELSE mine

\* the dictionary process p hands to save_data: the one it loaded, changed
WrittenData(p) == ReqBody(req[p], snap[p]).data

ConcInit ==
    /\ file = save_data(SharedData)
    /\ nextId = 2
    /\ supplied = FALSE
    /\ pc = [p \in Procs |-> "idle"]
    /\ snap = [p \in Procs |-> InitialData]
    /\ req = [p \in Procs |-> NoReq]
    /\ metric = NoMetric

\* process p is called
Call(p) ==
    /\ pc[p] = "idle"
    /\ \E r \in Requests : req' = [req EXCEPT ![p] = r]
    /\ pc' = [pc EXCEPT ![p] = "load"]
    /\ UNCHANGED <<file, nextId, supplied, snap, metric>>

\* data = load_data()
Load(p) ==
    /\ pc[p] = "load"
    /\ LET r == load_data(file)
       IN  /\ file' = r.file
           /\ snap' = [snap EXCEPT ![p] = r.data]
           /\ pc' = [pc EXCEPT ![p] = IF r.raised THEN "raised" ELSE "save"]
    /\ UNCHANGED <<nextId, supplied, req, metric>>

\* save_data: open(DATA_FILE, "w") truncates the file
SaveOpen(p) ==
    /\ pc[p] = "save"
    /\ file' = TruncatedFile
    /\ pc' = [pc EXCEPT ![p] = "write"]
    /\ UNCHANGED <<nextId, supplied, snap, req, metric>>

\* save_data: json.dump writes the document from offset 0 and the file is
\* closed.  If the other process wrote after this one truncated, this write
\* lands on top of that text: the file holds this document, or this document
\* followed by the rest of the longer one.
SaveWrite(p) ==
    /\ pc[p] \in {"write", "overwrite"}
    /\ \/ file' = save_data(WrittenData(p))
       \/ pc[p] = "overwrite" /\ file' = GarbledFile
    /\ pc' = [q \in Procs |->
                IF q = p THEN "done"
                ELSE IF pc[q] = "write" THEN "overwrite" ELSE pc[q]]
    /\ UNCHANGED <<nextId, supplied, snap, req, metric>>

NextConc ==
    \E p \in Procs :
        \/ Call(p)
        \/ Load(p)
        \/ SaveOpen(p)
        \/ SaveWrite(p)

SpecConc == ConcInit /\ [][NextConc]_vars

(***************************************************************************)
(* Properties.                                                             *)
(***************************************************************************)
\* the log of the habit the id names, as load_data reads it from file f
HabitLog(f, id) ==
    LET data == load_data(f).data
    IN  data.habits[FirstMatch(data.habits, id)].log

Count(x, list) == Cardinality({i \in 1..Len(list) : list[i] = x})

DayIso(d) == PyStr(IsoFormat(d))

\* C1: every habit's log in the store holds each date at most once.
NoDuplicateDates ==
    \A i \in 1..Len(Data.habits) :
        \A j, k \in 1..Len(Data.habits[i].log) :
            j # k => Data.habits[i].log[j] # Data.habits[i].log[k]

\* a renamed habit with both days logged
TwoDaysLogged ==
    \E i \in 1..Len(Data.habits) :
        /\ Len(Data.habits[i].log) = 2
        /\ Data.habits[i].name = PyStr(<<" ", "a">>)

\* C2: for every habit in the store and every day, toggling the day on twice
\* leaves the file as toggling it on once does, neither call raises, and the
\* log then holds the day exactly once.
ToggleOnTwiceIsOnce ==
    \A id \in Ids : HasId(Data.habits, id) =>
        \A d \in Days :
            LET once == toggle_habit_for_date(file, id, DayIso(d), TRUE)
                twice == toggle_habit_for_date(once.file, id, DayIso(d), TRUE)
            IN  /\ ~once.raised
                /\ ~twice.raised
                /\ twice.file = once.file
                /\ Count(DayIso(d), HabitLog(once.file, id)) = 1
                /\ Count(DayIso(d), HabitLog(twice.file, id)) = 1

\* a day already logged, next to another one, is toggled on again
ToggleOnLoggedDay ==
    \E id \in Ids, d \in Days :
        /\ DayLogged(Data, id, DayIso(d))
        /\ Len(HabitLog(file, id)) = 2
        /\ toggle_habit_for_date(file, id, DayIso(d), TRUE).file = file

\* C3: for every habit in the store and every day, toggling the day off does
\* not raise and leaves the day out of the log; if the day was not in the
\* log, the log is what it was.
ToggleOffLeavesDayAbsent ==
    \A id \in Ids : HasId(Data.habits, id) =>
        \A d \in Days :
            LET off == toggle_habit_for_date(file, id, DayIso(d), FALSE)
            IN  /\ ~off.raised
                /\ ~In(DayIso(d), HabitLog(off.file, id))
                /\ ~In(DayIso(d), HabitLog(file, id))
                      => HabitLog(off.file, id) = HabitLog(file, id)

\* a day that is not logged is toggled off while another day is logged
ToggleOffUnloggedDay ==
    \E id \in Ids, d \in Days :
        /\ HasId(Data.habits, id)
        /\ ~DayLogged(Data, id, DayIso(d))
        /\ HabitLog(file, id) # <<>>
        /\ ~toggle_habit_for_date(file, id, DayIso(d), FALSE).raised

\* the call returned normally and the collection is what it was
Untouched(r) == ~r.raised /\ load_data(r.file).data = Data

\* C4: update_task, delete_task, update_habit, delete_habit and
\* toggle_habit_for_date with an id that matches no record return normally
\* and leave the collection as it was.
MissingIdIsNoOp ==
    \A id \in Ids :
        /\ ~HasId(Data.tasks, id) =>
              /\ \A c \in TaskChanges : Untouched(update_task(file, id, c))
              /\ Untouched(delete_task(file, id))
        /\ ~HasId(Data.habits, id) =>
              /\ \A c \in HabitChanges : Untouched(update_habit(file, id, c))
              /\ Untouched(delete_habit(file, id))
              /\ \A d \in Days, b \in BOOLEAN :
                    Untouched(toggle_habit_for_date(file, id, DayIso(d), b))

\* a task and a habit with a logged day are stored and the id names neither
MissingIdOnFilledStore ==
    \E id \in Ids :
        /\ file.st = "json"
        /\ Len(Data.tasks) >= 1
        /\ Len(Data.habits) >= 1
        /\ Data.habits[1].log # <<>>
        /\ ~HasId(Data.tasks, id)
        /\ ~HasId(Data.habits, id)
        /\ Untouched(delete_task(file, id))

\* both calls have returned normally
Returned == \A p \in Procs : pc[p] = "done"

\* the call of process p changed the dictionary it loaded
Effective(p) == WrittenData(p) # snap[p]

\* the stored collection holds the change of process p
Reflected(p) == ReqBody(req[p], Data).data = Data

\* C5: when both processes loaded the same dictionary, each changed a record
\* of a different kind and both have returned, the file holds the change of
\* exactly one of them: the other update is lost.
LostUpdate ==
    (/\ Returned
     /\ file.st = "json"
     /\ snap[1] = snap[2]
     /\ req[1].op # req[2].op
     /\ Effective(1)
     /\ Effective(2))
    => (Reflected(1) # Reflected(2))

\* both calls returned; the task update is stored and the toggle is not
ToggleLost ==
    /\ Returned
    /\ file.st = "json"
    /\ req[1].op = "toggle_habit_for_date"
    /\ req[2].op = "update_task"
    /\ Effective(1)
    /\ Effective(2)
    /\ ~Reflected(1)
    /\ Reflected(2)

\* C6, as claimed: no two records of the task list have the same id.
UniqueTaskIds ==
    \A i, j \in 1..Len(Data.tasks) :
        i # j => Data.tasks[i].id # Data.tasks[j].id

\* C6, amended: as long as every add_task was handed a record built by
\* create_task, no two records of the task list have the same id.
UniqueTaskIdsWhenCreated == ~supplied => UniqueTaskIds

\* two tasks built by create_task are stored
TwoCreatedTasks == ~supplied /\ Len(Data.tasks) = 2

\* C7: for every record create_task builds, add_task followed by load_data
\* gives the task list with that record appended, equal field for field, and
\* the habits as they were.
AddTaskRoundTrip ==
    \A title \in TitleInputs, description \in DescInputs,
       deadline \in DeadlineInputs, now \in Nows :
        LET task == create_task(title, description, deadline, nextId + 1, now)
            r == add_task(file, task)
            after == load_data(r.file).data
        IN  /\ ~r.raised
            /\ after.tasks = Append(Data.tasks, task)
            /\ after.habits = Data.habits

\* a task without a deadline was added to a store that holds a habit with a
\* logged day
TaskWithoutDeadlineAdded ==
    /\ Len(Data.tasks) >= 1
    /\ Len(Data.habits) >= 1
    /\ Data.habits[1].log # <<>>
    /\ \E title \in TitleInputs, description \in DescInputs, now \in Nows :
          Data.tasks[Len(Data.tasks)]
              = create_task(title, description, PyNone, nextId, now)

\* the Monday-to-Sunday week of a date
WeekOf(d) ==
    LET monday == CHOOSE m \in (d - 6)..d : Weekday(m) = 0
    IN  monday..(monday + 6)

Logged(log, d) == In(DayIso(d), log)

\* C8: weekly_completion_for_habit gives the same value for every reference
\* date of the same Monday-to-Sunday week; the value is 0 when the log holds
\* no date of the week and 100 when it holds all seven.
WeeklyCompletionByWeek ==
    metric.fn = "weekly" =>
        LET week == WeekOf(metric.a)
        IN  /\ \A ref_date \in week :
                  weekly_completion_for_habit(HabitWithLog(metric.log), ref_date)
                      = metric.out
            /\ (\A d \in week : ~Logged(metric.log, d)) => metric.out = 0
            /\ (\A d \in week : Logged(metric.log, d)) => metric.out = 100

\* a full week and days outside it are logged, the reference date is its Sunday
FullWeekLogged ==
    /\ metric.fn = "weekly"
    /\ Weekday(metric.a) = 6
    /\ \A d \in WeekOf(metric.a) : Logged(metric.log, d)
    /\ Len(metric.log) > 7
    /\ metric.out = 100

\* C9: current_streak returns the number k of consecutive days today,
\* today-1, ..., today-(k-1) that are in the log, with today-k not in it; it
\* is 0 whenever today is not in the log.
StreakIsRunEndingToday ==
    metric.fn = "streak" =>
        /\ \A i \in 0..(metric.out - 1) : Logged(metric.log, metric.a - i)
        /\ ~Logged(metric.log, metric.a - metric.out)
        /\ ~Logged(metric.log, metric.a) => metric.out = 0

\* a streak of two stops at a gap with a logged day behind it
StreakStopsAtGap ==
    /\ metric.fn = "streak"
    /\ metric.out = 2
    /\ ~Logged(metric.log, metric.a - 2)
    /\ Logged(metric.log, metric.a - 3)

\* C10, as claimed: percent(part, whole) is floor(100 * part / whole) when
\* whole > 0 and 0 when whole = 0.
PercentIsFloor ==
    metric.fn = "percent" =>
        metric.out = (IF metric.b > 0 THEN (100 * metric.a) \div metric.b ELSE 0)

\* the list without the entries equal to x, the others in their order
Without(list, x) == SelectSeq(list, LAMBDA e : e # x)

\* C11: toggle_habit_for_date on a habit in the store changes nothing but
\* whether the day is in that habit's log: the tasks, the other habits, the
\* order of the habits, the habit's other fields and the other dates of its
\* log, in their order, are what they were.
ToggleChangesOnlyTheDay ==
    \A id \in Ids : HasId(Data.habits, id) =>
        \A d \in Days, is_done \in BOOLEAN :
            LET r == toggle_habit_for_date(file, id, DayIso(d), is_done)
                after == load_data(r.file).data
                i == FirstMatch(Data.habits, id)
            IN  /\ ~r.raised
                /\ after.tasks = Data.tasks
                /\ Len(after.habits) = Len(Data.habits)
                /\ \A k \in 1..Len(Data.habits) :
                      k # i => after.habits[k] = Data.habits[k]
                /\ DOMAIN after.habits[i] = DOMAIN Data.habits[i]
                /\ \A f \in DOMAIN Data.habits[i] \ {"log"} :
                      after.habits[i][f] = Data.habits[i][f]
                /\ Without(after.habits[i].log, DayIso(d))
                      = Without(Data.habits[i].log, DayIso(d))
                /\ In(DayIso(d), after.habits[i].log) = is_done

\* two habits are stored, the second with a day logged; toggling the other
\* day on it changes the file
ToggleBesideOtherRecords ==
    \E d \in Days :
        /\ Len(Data.habits) = 2
        /\ Data.habits[2].log # <<>>
        /\ ~In(DayIso(d), Data.habits[2].log)
        /\ toggle_habit_for_date(file, Data.habits[2].id, DayIso(d), TRUE).file # file

====
